---- MODULE Spec2Model ----
(***************************************************************************)
(* A model of convert.py: the postfix expression evaluator                 *)
(* (evaluate_postfix_expression), the value transducer (process_value)     *)
(* and the orchestration in main.                                          *)
(*                                                                         *)
(* Text (JSON strings, names, tokens, rendered values, output lines) is a  *)
(* sequence of one-character strings, so that prefix tests, splitting,     *)
(* integer parsing and number formatting are computed as the code does.    *)
(*                                                                         *)
(* A JSON value is a record [k, n, s, a]:                                  *)
(*   k = "int"   n = the integer                                           *)
(*   k = "float" n = an integer; the value is the float n.0                *)
(*   k = "bool"  n = 1 (True) or 0 (False); Python's bool is a subclass    *)
(*               of int and behaves as that integer in arithmetic          *)
(*   k = "null"                                                            *)
(*   k = "str"   s = the characters                                        *)
(*   k = "list"  a = the elements                                          *)
(*   k = "dict"  (contents are never inspected by the code modelled)       *)
(***************************************************************************)
EXTENDS Integers, Sequences, FiniteSets, TLC

VARIABLES
    tokens,        \* evaluate_postfix_expression: parameter tokens
    constants,     \* the constants mapping: a sequence of [name, val] in insertion order
    stack,         \* evaluate_postfix_expression: local stack
    pos,           \* number of tokens the for loop has consumed
    epc,           \* evaluator position: "idle", "loop", "returned", "raised"
    eerr,          \* the ConfigError raised by the evaluator, or "none"
    result,        \* the value returned by the evaluator (stack[0])
    data,          \* main: the parsed JSON document
    output_lines,  \* main: local output_lines
    file,          \* the chunks written to the output file
    opened,        \* whether the output file has been opened for writing
    pc,            \* main position
    err,           \* the ConfigError raised in main, or "none"
    ci,            \* number of constants_section items the first loop has consumed
    ri,            \* number of constants the rendering loop has consumed
    ei,            \* number of other top-level items the last loop has consumed
    pvCalled       \* indices of the top-level items whose value was passed to process_value

vars == <<tokens, constants, stack, pos, epc, eerr, result,
          data, output_lines, file, opened, pc, err, ci, ri, ei, pvCalled>>

evalVars == <<tokens, stack, pos, epc, eerr, result>>
mainVars == <<data, output_lines, file, opened, pc, err, ci, ri, ei, pvCalled>>

(***************************************************************************)
(* Bounds of the model.                                                    *)
(***************************************************************************)
MaxTokens == 3
MaxConsts == 2
MaxEntries == 2

(***************************************************************************)
(* JSON values.                                                            *)
(***************************************************************************)
IntV(n) == [k |-> "int", n |-> n, s |-> <<>>, a |-> <<>>]
FloatV(n) == [k |-> "float", n |-> n, s |-> <<>>, a |-> <<>>]
BoolV(n) == [k |-> "bool", n |-> n, s |-> <<>>, a |-> <<>>]
NullV == [k |-> "null", n |-> 0, s |-> <<>>, a |-> <<>>]
StrV(s) == [k |-> "str", n |-> 0, s |-> s, a |-> <<>>]
ListV(a) == [k |-> "list", n |-> 0, s |-> <<>>, a |-> a]
DictV == [k |-> "dict", n |-> 0, s |-> <<>>, a |-> <<>>]

\* isinstance(v, (int, float)): true of bool as well, bool being a subclass of int
IsNumber(v) == v.k \in {"int", "float", "bool"}

\* isinstance(v, list)
IsList(v) == v.k = "list"

(***************************************************************************)
(* Characters and text.                                                    *)
(***************************************************************************)
Lower == {"a", "b", "c", "d", "e", "f", "g", "h", "i", "j", "k", "l", "m",
          "n", "o", "p", "q", "r", "s", "t", "u", "v", "w", "x", "y", "z"}

DigitChars == <<"0", "1", "2", "3", "4", "5", "6", "7", "8", "9">>

Digits == {DigitChars[d] : d \in 1..10}

Whitespace == {" ", "\t", "\n"}

DigitVal(c) == (CHOOSE d \in 1..10 : DigitChars[d] = c) - 1

RECURSIVE NatToStr(_)
NatToStr(n) ==
    IF n < 10 THEN <<DigitChars[n + 1]>>
    ELSE NatToStr(n \div 10) \o <<DigitChars[(n % 10) + 1]>>

IntToStr(n) == IF n < 0 THEN <<"-">> \o NatToStr(0 - n) ELSE NatToStr(n)

\* str(v) for a number v
PyStr(v) ==
    CASE v.k = "bool" -> IF v.n = 1 THEN <<"T", "r", "u", "e">>
                         ELSE <<"F", "a", "l", "s", "e">>
      [] v.k = "float" -> IntToStr(v.n) \o <<".", "0">>
      [] v.k = "str" -> v.s
      [] OTHER -> IntToStr(v.n)

\* ", ".join(texts)
RECURSIVE Join(_)
Join(texts) ==
    IF texts = <<>> THEN <<>>
    ELSE IF Len(texts) = 1 THEN texts[1]
    ELSE texts[1] \o <<",", " ">> \o Join(Tail(texts))

\* name_pattern.match(k) for name_pattern = ^[a-z][a-z0-9_]*$
\* ($ also matches just before a newline that ends the string)
NameBody(k) ==
    /\ Len(k) >= 1
    /\ k[1] \in Lower
    /\ \A j \in 2..Len(k) : k[j] \in Lower \cup Digits \cup {"_"}

NameMatch(k) ==
    \/ NameBody(k)
    \/ /\ Len(k) >= 2
       /\ k[Len(k)] = "\n"
       /\ NameBody(SubSeq(k, 1, Len(k) - 1))

(***************************************************************************)
(* int(t) for a token t: an optional sign, then decimal digits, which      *)
(* single underscores may separate.                                        *)
(***************************************************************************)
Unsigned(t) == IF t # <<>> /\ t[1] \in {"+", "-"} THEN Tail(t) ELSE t

IntSyntax(t) ==
    LET b == Unsigned(t) IN
    /\ Len(b) >= 1
    /\ b[1] \in Digits
    /\ b[Len(b)] \in Digits
    /\ \A j \in 1..Len(b) : b[j] \in Digits \cup {"_"}
    /\ \A j \in 1..(Len(b) - 1) : ~(b[j] = "_" /\ b[j + 1] = "_")

RECURSIVE DigitsValue(_, _)
DigitsValue(b, acc) ==
    IF b = <<>> THEN acc
    ELSE IF b[1] = "_" THEN DigitsValue(Tail(b), acc)
    ELSE DigitsValue(Tail(b), 10 * acc + DigitVal(b[1]))

IntValue(t) ==
    IF t[1] = "-" THEN 0 - DigitsValue(Unsigned(t), 0)
    ELSE DigitsValue(Unsigned(t), 0)

(***************************************************************************)
(* The constants mapping.                                                  *)
(***************************************************************************)
\* t in constants
HasKey(cs, t) == \E j \in 1..Len(cs) : cs[j].name = t

\* constants[t]
Get(cs, t) == cs[CHOOSE j \in 1..Len(cs) : cs[j].name = t].val

(***************************************************************************)
(* Python arithmetic on numbers.                                           *)
(***************************************************************************)
Widen(a, b) == IF a.k = "float" \/ b.k = "float" THEN "float" ELSE "int"

Number(kind, n) == [k |-> kind, n |-> n, s |-> <<>>, a |-> <<>>]

PyAdd(a, b) == Number(Widen(a, b), a.n + b.n)
PySub(a, b) == Number(Widen(a, b), a.n - b.n)
PyMul(a, b) == Number(Widen(a, b), a.n * b.n)

\* max(a, b) returns the first of the largest arguments, unchanged
PyMax(a, b) == IF b.n > a.n THEN b ELSE a

PyAbs(a) == Number(IF a.k = "float" THEN "float" ELSE "int",
                   IF a.n < 0 THEN 0 - a.n ELSE a.n)

(***************************************************************************)
(* evaluate_postfix_expression.  Each branch of the loop body maps the     *)
(* stack to the stack it leaves and the ConfigError it raises ("none" when *)
(* it raises nothing).                                                     *)
(***************************************************************************)
PLUS == <<"+">>
MINUS == <<"-">>
TIMES == <<"*">>
MAX == <<"m", "a", "x">>
ABS == <<"a", "b", "s">>

Outcome(st, e) == [stack |-> st, err |-> e]

Front(st, cnt) == SubSeq(st, 1, Len(st) - cnt)

\* ApplyArith with the operands of '-' taken in pop order (b - a)
ApplyArithSwapped(st, t) ==
    IF Len(st) < 2 THEN Outcome(st, "NotEnoughOperands")
    ELSE LET b == st[Len(st)]
             a == st[Len(st) - 1]
             rest == Front(st, 2)
         IN IF ~IsNumber(a) \/ ~IsNumber(b) THEN Outcome(rest, "ArithOnlyNumbers")
            ELSE IF t = PLUS THEN Outcome(Append(rest, PyAdd(a, b)), "none")
            ELSE IF t = MINUS THEN Outcome(Append(rest, PySub(b, a)), "none")
            ELSE Outcome(Append(rest, PyMul(a, b)), "none")

\* t in ['+', '-', '*']
ApplyArith(st, t) ==
    IF Len(st) < 2 THEN Outcome(st, "NotEnoughOperands")
    ELSE LET b == st[Len(st)]
             a == st[Len(st) - 1]
             rest == Front(st, 2)
         IN IF ~IsNumber(a) \/ ~IsNumber(b) THEN Outcome(rest, "ArithOnlyNumbers")
            ELSE IF t = PLUS THEN Outcome(Append(rest, PyAdd(a, b)), "none")
            ELSE IF t = MINUS THEN Outcome(Append(rest, PySub(a, b)), "none")
            ELSE Outcome(Append(rest, PyMul(a, b)), "none")

\* ApplyMax popping before it counts the operands
ApplyMaxPopFirst(st) ==
    IF Len(st) < 2 THEN Outcome(<<>>, "NotEnoughMax")
    ELSE LET b == st[Len(st)]
             a == st[Len(st) - 1]
             rest == Front(st, 2)
         IN IF ~IsNumber(a) \/ ~IsNumber(b) THEN Outcome(rest, "MaxOnlyNumbers")
            ELSE Outcome(Append(rest, PyMax(a, b)), "none")

\* t == 'max'
ApplyMax(st) ==
    IF Len(st) < 2 THEN Outcome(st, "NotEnoughMax")
    ELSE LET b == st[Len(st)]
             a == st[Len(st) - 1]
             rest == Front(st, 2)
         IN IF ~IsNumber(a) \/ ~IsNumber(b) THEN Outcome(rest, "MaxOnlyNumbers")
            ELSE Outcome(Append(rest, PyMax(a, b)), "none")

\* t == 'abs'
ApplyAbs(st) ==
    IF Len(st) < 1 THEN Outcome(st, "NotEnoughAbs")
    ELSE LET a == st[Len(st)]
             rest == Front(st, 1)
         IN IF ~IsNumber(a) THEN Outcome(rest, "AbsOnlyNumbers")
            ELSE Outcome(Append(rest, PyAbs(a)), "none")

\* PushOperand pushing the token of a constant instead of its bound value
PushOperandName(st, t, cs) ==
    IF HasKey(cs, t)
    THEN LET val == Get(cs, t)
         IN IF IsList(val) THEN Outcome(st, "ArrayInExpression")
            ELSE Outcome(Append(st, StrV(t)), "none")
    ELSE IF IntSyntax(t) THEN Outcome(Append(st, IntV(IntValue(t))), "none")
    ELSE Outcome(st, "UnknownToken")

\* PushOperand without the test for an array
PushOperandNoArrayCheck(st, t, cs) ==
    IF HasKey(cs, t) THEN Outcome(Append(st, Get(cs, t)), "none")
    ELSE IF IntSyntax(t) THEN Outcome(Append(st, IntV(IntValue(t))), "none")
    ELSE Outcome(st, "UnknownToken")

\* the else branch: a constant name or an integer literal
PushOperand(st, t, cs) ==
    IF HasKey(cs, t)
    THEN LET val == Get(cs, t)
         IN IF IsList(val) THEN Outcome(st, "ArrayInExpression")
            ELSE Outcome(Append(st, val), "none")
    ELSE IF IntSyntax(t) THEN Outcome(Append(st, IntV(IntValue(t))), "none")
    ELSE Outcome(st, "UnknownToken")

\* one iteration of "for t in tokens"
EvalToken(st, t, cs) ==
    IF t \in {PLUS, MINUS, TIMES} THEN ApplyArith(st, t)
    ELSE IF t = MAX THEN ApplyMax(st)
    ELSE IF t = ABS THEN ApplyAbs(st)
    ELSE PushOperand(st, t, cs)

\* StackIsResult accepting any stack that is not empty
StackIsResultNonEmpty(st) == Len(st) >= 1

\* the check after the loop: the stack must hold exactly one value
StackIsResult(st) == Len(st) = 1

\* the whole call: [ok, val, err]
RECURSIVE EvalFrom(_, _, _)
EvalFrom(st, ts, cs) ==
    IF ts = <<>>
    THEN IF StackIsResult(st) THEN [ok |-> TRUE, val |-> st[1], err |-> "none"]
         ELSE [ok |-> FALSE, val |-> NullV, err |-> "InvalidStack"]
    ELSE LET o == EvalToken(st, ts[1], cs)
         IN IF o.err # "none" THEN [ok |-> FALSE, val |-> NullV, err |-> o.err]
            ELSE EvalFrom(o.stack, Tail(ts), cs)

evaluate_postfix_expression(ts, cs) == EvalFrom(<<>>, ts, cs)

(***************************************************************************)
(* process_value.                                                          *)
(***************************************************************************)
\* val.startswith("@(") and val.endswith(")")
IsExpression(s) ==
    /\ Len(s) >= 2
    /\ s[1] = "@"
    /\ s[2] = "("
    /\ s[Len(s)] = ")"

\* s.strip()
RECURSIVE LStrip(_)
LStrip(s) == IF s # <<>> /\ s[1] \in Whitespace THEN LStrip(Tail(s)) ELSE s

RECURSIVE RStrip(_)
RStrip(s) ==
    IF s # <<>> /\ s[Len(s)] \in Whitespace THEN RStrip(SubSeq(s, 1, Len(s) - 1)) ELSE s

Strip(s) == RStrip(LStrip(s))

\* s.split(): the maximal runs of characters that are not whitespace
RECURSIVE SplitFrom(_, _, _)
SplitFrom(s, cur, acc) ==
    IF s = <<>> THEN (IF cur = <<>> THEN acc ELSE Append(acc, cur))
    ELSE IF s[1] \in Whitespace
         THEN SplitFrom(Tail(s), <<>>, IF cur = <<>> THEN acc ELSE Append(acc, cur))
         ELSE SplitFrom(Tail(s), Append(cur, s[1]), acc)

Split(s) == SplitFrom(s, <<>>, <<>>)

\* val[2:-1].strip().split()
ExpressionTokens(s) == Split(Strip(SubSeq(s, 3, Len(s) - 1)))

Text(t) == [ok |-> TRUE, text |-> t, err |-> "none"]
Raise(e) == [ok |-> FALSE, text |-> <<>>, err |-> e]

RECURSIVE process_value(_, _)
RECURSIVE ProcessItems(_, _, _)

\* [process_value(x, constants) for x in val]: the first failing element raises
ProcessItems(items, cs, acc) ==
    IF items = <<>> THEN [ok |-> TRUE, texts |-> acc, err |-> "none"]
    ELSE LET r == process_value(items[1], cs)
         IN IF r.ok THEN ProcessItems(Tail(items), cs, Append(acc, r.text))
            ELSE [ok |-> FALSE, texts |-> <<>>, err |-> r.err]

process_value(val, cs) ==
    IF val.k = "dict" THEN Raise("DictNotAllowed")
    ELSE IF val.k = "list"
    THEN LET r == ProcessItems(val.a, cs, <<>>)
         IN IF r.ok THEN Text(<<"[">> \o Join(r.texts) \o <<"]">>) ELSE Raise(r.err)
    ELSE IF val.k = "str"
    THEN IF IsExpression(val.s)
         THEN LET r == evaluate_postfix_expression(ExpressionTokens(val.s), cs)
              IN IF r.ok THEN Text(PyStr(r.val)) ELSE Raise(r.err)
         ELSE Raise("StringNotSupported")
    ELSE IF IsNumber(val) THEN Text(PyStr(val))
    ELSE Raise("UnsupportedType")

(***************************************************************************)
(* main: validation and rendering of the constants.                        *)
(***************************************************************************)
\* check_array(arr) raises nothing
RECURSIVE check_array(_)
check_array(arr) ==
    \A j \in 1..Len(arr) :
        \/ IsNumber(arr[j])
        \/ IsList(arr[j]) /\ check_array(arr[j].a)

\* ConstantError without the final else branch: any scalar is accepted
ConstantErrorAnyScalar(k, v) ==
    IF ~NameMatch(k) THEN "InvalidConstName"
    ELSE IF IsList(v) THEN (IF check_array(v.a) THEN "none" ELSE "ArrayContents")
    ELSE "none"

\* the error the first loop raises for the item (k, v), or "none"
ConstantError(k, v) ==
    IF ~NameMatch(k) THEN "InvalidConstName"
    ELSE IF IsNumber(v) THEN "none"
    ELSE IF IsList(v) THEN (IF check_array(v.a) THEN "none" ELSE "ArrayContents")
    ELSE "ConstantType"

RECURSIVE arr_to_str(_)
arr_to_str(arr) ==
    <<"[">> \o Join([j \in 1..Len(arr) |->
                       IF IsList(arr[j]) THEN arr_to_str(arr[j].a) ELSE PyStr(arr[j])])
            \o <<"]">>

\* f"const {name} = {text};"
Declaration(name, text) ==
    <<"c", "o", "n", "s", "t", " ">> \o name \o <<" ", "=", " ">> \o text \o <<";">>

(***************************************************************************)
(* Inputs.                                                                 *)
(***************************************************************************)
BoundedSeq(S, n) == UNION {[1..m -> S] : m \in 0..n}

\* a JSON object has each key once
DistinctNames(items) ==
    \A i, j \in 1..Len(items) : i # j => items[i].name # items[j].name

Items(names, vals, n) ==
    {items \in BoundedSeq([name : names, val : vals], n) : DistinctNames(items)}

NestedArray == ListV(<<IntV(1), ListV(<<IntV(2), IntV(3)>>), IntV(4)>>)

\* token sequences handed to evaluate_postfix_expression
EvalTokenPool ==
    {PLUS, MINUS, TIMES, MAX, ABS, <<"x">>, <<"5">>, <<"3">>, <<"-", "4">>}

\* constants mappings handed to evaluate_postfix_expression
EvalConstants ==
    {<<>>} \cup
    {<<[name |-> <<"x">>, val |-> v1], [name |-> w, val |-> v2]>> :
        v1 \in {IntV(10), FloatV(2), NestedArray, StrV(<<"s">>)},
        w \in {MAX, ABS},
        v2 \in {IntV(7), ListV(<<IntV(1)>>)}}

\* the "constants" section of the document
ConstNamePool == {<<"x">>, <<"m", "a", "x">>, <<"F", "o", "o">>}

ConstValPool ==
    {IntV(5), NestedArray, StrV(<<"s">>), ListV(<<IntV(1), ListV(<<NullV>>)>>)}

\* the other top-level items
EntryNamePool == {<<"a">>, <<"x">>, <<"1", "x">>}

EntryValPool ==
    {IntV(7),
     BoolV(1),
     ListV(<<IntV(1), ListV(<<StrV(<<"@", "(", " ", "x", " ", " ", "2", "\t", "*", ")">>)>>)>>),
     ListV(<<FloatV(2), NullV>>),
     StrV(<<"@", "(", ")">>),
     StrV(<<"a", "b", "c">>),
     DictV}

Documents ==
    {[has_constants |-> FALSE, constants_section |-> <<>>, rest |-> <<>>]} \cup
    [has_constants : {TRUE},
     constants_section : Items(ConstNamePool, ConstValPool, MaxConsts),
     rest : Items(EntryNamePool, EntryValPool, MaxEntries)]

NoDocument == [has_constants |-> FALSE, constants_section |-> <<>>, rest |-> <<>>]

(***************************************************************************)
(* One call of evaluate_postfix_expression, token by token.                *)
(***************************************************************************)
EvalInit ==
    /\ tokens \in BoundedSeq(EvalTokenPool, MaxTokens)
    /\ constants \in EvalConstants
    /\ stack = <<>>
    /\ pos = 0
    /\ epc = "loop"
    /\ eerr = "none"
    /\ result = NullV
    /\ data = NoDocument
    /\ output_lines = <<>>
    /\ file = <<>>
    /\ opened = FALSE
    /\ pc = "idle"
    /\ err = "none"
    /\ ci = 0
    /\ ri = 0
    /\ ei = 0
    /\ pvCalled = {}

\* the body of "for t in tokens" for the next token
EvalStep ==
    /\ epc = "loop"
    /\ pos < Len(tokens)
    /\ LET o == EvalToken(stack, tokens[pos + 1], constants)
       IN /\ stack' = o.stack
          /\ eerr' = o.err
          /\ IF o.err = "none"
             THEN pos' = pos + 1 /\ epc' = "loop"
             ELSE pos' = pos /\ epc' = "raised"
    /\ UNCHANGED <<tokens, constants, result>>
    /\ UNCHANGED mainVars

\* after the loop: return stack[0] or raise
EvalReturn ==
    /\ epc = "loop"
    /\ pos = Len(tokens)
    /\ IF StackIsResult(stack)
       THEN result' = stack[1] /\ epc' = "returned" /\ eerr' = eerr
       ELSE result' = result /\ epc' = "raised" /\ eerr' = "InvalidStack"
    /\ UNCHANGED <<tokens, constants, stack, pos>>
    /\ UNCHANGED mainVars

EvalNext == EvalStep \/ EvalReturn

EvalSpec == EvalInit /\ [][EvalNext]_vars

(***************************************************************************)
(* One run of main.                                                        *)
(***************************************************************************)
Init ==
    /\ data \in Documents
    /\ constants = <<>>
    /\ output_lines = <<>>
    /\ file = <<>>
    /\ opened = FALSE
    /\ pc = "start"
    /\ err = "none"
    /\ ci = 0
    /\ ri = 0
    /\ ei = 0
    /\ pvCalled = {}
    /\ tokens = <<>>
    /\ stack = <<>>
    /\ pos = 0
    /\ epc = "idle"
    /\ eerr = "none"
    /\ result = NullV

\* if "constants" not in data: raise
CheckSection ==
    /\ pc = "start"
    /\ IF data.has_constants
       THEN pc' = "load" /\ err' = err
       ELSE pc' = "failed" /\ err' = "NoConstants"
    /\ UNCHANGED <<data, constants, output_lines, file, opened, ci, ri, ei, pvCalled>>
    /\ UNCHANGED evalVars

\* the body of "for k, v in constants_section.items()"
LoadConstant ==
    /\ pc = "load"
    /\ ci < Len(data.constants_section)
    /\ LET item == data.constants_section[ci + 1]
           e == ConstantError(item.name, item.val)
       IN IF e = "none"
          THEN /\ constants' = Append(constants, item)
               /\ ci' = ci + 1
               /\ UNCHANGED <<pc, err>>
          ELSE /\ pc' = "failed"
               /\ err' = e
               /\ UNCHANGED <<constants, ci>>
    /\ UNCHANGED <<data, output_lines, file, opened, ri, ei, pvCalled>>
    /\ UNCHANGED evalVars

\* del data["constants"]; output_lines = []
DeleteSection ==
    /\ pc = "load"
    /\ ci = Len(data.constants_section)
    /\ pc' = "emit"
    /\ output_lines' = <<>>
    /\ UNCHANGED <<data, constants, file, opened, err, ci, ri, ei, pvCalled>>
    /\ UNCHANGED evalVars

\* RenderConstant inserting each declaration at the front of output_lines
RenderConstantPrepend ==
    /\ pc = "emit"
    /\ ri < Len(constants)
    /\ LET c == constants[ri + 1]
           val_str == IF IsList(c.val) THEN arr_to_str(c.val.a) ELSE PyStr(c.val)
       IN output_lines' = <<Declaration(c.name, val_str)>> \o output_lines
    /\ ri' = ri + 1
    /\ UNCHANGED <<data, constants, file, opened, pc, err, ci, ei, pvCalled>>
    /\ UNCHANGED evalVars

\* the body of "for cn, cv in constants.items()"
RenderConstant ==
    /\ pc = "emit"
    /\ ri < Len(constants)
    /\ LET c == constants[ri + 1]
           val_str == IF IsList(c.val) THEN arr_to_str(c.val.a) ELSE PyStr(c.val)
       IN output_lines' = Append(output_lines, Declaration(c.name, val_str))
    /\ ri' = ri + 1
    /\ UNCHANGED <<data, constants, file, opened, pc, err, ci, ei, pvCalled>>
    /\ UNCHANGED evalVars

\* ProcessEntry writing each declaration to the output file as soon as it is made
ProcessEntryStreaming ==
    /\ pc = "emit"
    /\ ri = Len(constants)
    /\ ei < Len(data.rest)
    /\ LET item == data.rest[ei + 1]
       IN IF ~NameMatch(item.name)
          THEN /\ pc' = "failed"
               /\ err' = "InvalidTopName"
               /\ UNCHANGED <<output_lines, file, opened, ei, pvCalled>>
          ELSE LET r == process_value(item.val, constants)
               IN /\ pvCalled' = pvCalled \cup {ei + 1}
                  /\ IF r.ok
                     THEN /\ output_lines' = Append(output_lines, Declaration(item.name, r.text))
                          /\ file' = Append(file, Declaration(item.name, r.text) \o <<"\n">>)
                          /\ opened' = TRUE
                          /\ ei' = ei + 1
                          /\ UNCHANGED <<pc, err>>
                     ELSE /\ pc' = "failed"
                          /\ err' = r.err
                          /\ UNCHANGED <<output_lines, file, opened, ei>>
    /\ UNCHANGED <<data, constants, ci, ri>>
    /\ UNCHANGED evalVars

\* ProcessEntry transforming the value before it checks the name
ProcessEntryValueFirst ==
    /\ pc = "emit"
    /\ ri = Len(constants)
    /\ ei < Len(data.rest)
    /\ LET item == data.rest[ei + 1]
           r == process_value(item.val, constants)
       IN /\ pvCalled' = pvCalled \cup {ei + 1}
          /\ IF ~r.ok
             THEN /\ pc' = "failed"
                  /\ err' = r.err
                  /\ UNCHANGED <<output_lines, ei>>
             ELSE IF ~NameMatch(item.name)
             THEN /\ pc' = "failed"
                  /\ err' = "InvalidTopName"
                  /\ UNCHANGED <<output_lines, ei>>
             ELSE /\ output_lines' = Append(output_lines, Declaration(item.name, r.text))
                  /\ ei' = ei + 1
                  /\ UNCHANGED <<pc, err>>
    /\ UNCHANGED <<data, constants, file, opened, ci, ri>>
    /\ UNCHANGED evalVars

\* the body of "for k, v in data.items()"
ProcessEntry ==
    /\ pc = "emit"
    /\ ri = Len(constants)
    /\ ei < Len(data.rest)
    /\ LET item == data.rest[ei + 1]
       IN IF ~NameMatch(item.name)
          THEN /\ pc' = "failed"
               /\ err' = "InvalidTopName"
               /\ UNCHANGED <<output_lines, ei, pvCalled>>
          ELSE LET r == process_value(item.val, constants)
               IN /\ pvCalled' = pvCalled \cup {ei + 1}
                  /\ IF r.ok
                     THEN /\ output_lines' = Append(output_lines, Declaration(item.name, r.text))
                          /\ ei' = ei + 1
                          /\ UNCHANGED <<pc, err>>
                     ELSE /\ pc' = "failed"
                          /\ err' = r.err
                          /\ UNCHANGED <<output_lines, ei>>
    /\ UNCHANGED <<data, constants, file, opened, ci, ri>>
    /\ UNCHANGED evalVars

\* with open(args.output, "w") as f: f.write(line + "\n") for each line
WriteOutput ==
    /\ pc = "emit"
    /\ ri = Len(constants)
    /\ ei = Len(data.rest)
    /\ opened' = TRUE
    /\ file' = [j \in 1..Len(output_lines) |-> output_lines[j] \o <<"\n">>]
    /\ pc' = "done"
    /\ UNCHANGED <<data, constants, output_lines, err, ci, ri, ei, pvCalled>>
    /\ UNCHANGED evalVars

Next ==
    \/ CheckSection
    \/ LoadConstant
    \/ DeleteSection
    \/ RenderConstant
    \/ ProcessEntry
    \/ WriteOutput

Spec == Init /\ [][Next]_vars

(***************************************************************************)
(* The reference postfix evaluation: the value of the expression tree that *)
(* a token sequence denotes.  The last token is the root; a binary         *)
(* operator splits what precedes it into a left and a right operand.       *)
(***************************************************************************)
BinaryOps == {PLUS, MINUS, TIMES, MAX}

\* an integer literal or the name of a scalar constant
IsOperandToken(t, cs) ==
    /\ t \notin BinaryOps \cup {ABS}
    /\ IF HasKey(cs, t) THEN IsNumber(Get(cs, t)) ELSE IntSyntax(t)

Slice(ts, from, to) == SubSeq(ts, from, to)

RECURSIVE WellFormed(_, _)
WellFormed(ts, cs) ==
    /\ Len(ts) >= 1
    /\ LET last == ts[Len(ts)]
           n == Len(ts) - 1
       IN IF last \in BinaryOps
          THEN \E j \in 1..(n - 1) :
                   WellFormed(Slice(ts, 1, j), cs) /\ WellFormed(Slice(ts, j + 1, n), cs)
          ELSE IF last = ABS THEN WellFormed(Slice(ts, 1, n), cs)
          ELSE n = 0 /\ IsOperandToken(last, cs)

RECURSIVE RefValue(_, _)
RefValue(ts, cs) ==
    LET last == ts[Len(ts)]
        n == Len(ts) - 1
    IN IF last \in BinaryOps
       THEN LET j == CHOOSE i \in 1..(n - 1) :
                         WellFormed(Slice(ts, 1, i), cs) /\ WellFormed(Slice(ts, i + 1, n), cs)
                a == RefValue(Slice(ts, 1, j), cs)
                b == RefValue(Slice(ts, j + 1, n), cs)
            IN CASE last = PLUS -> a + b
                 [] last = MINUS -> a - b
                 [] last = TIMES -> a * b
                 [] OTHER -> IF a >= b THEN a ELSE b
       ELSE IF last = ABS
       THEN LET a == RefValue(Slice(ts, 1, n), cs) IN IF a < 0 THEN 0 - a ELSE a
       ELSE IF HasKey(cs, last) THEN Get(cs, last).n ELSE IntValue(last)

\* C1: when the call on a well-formed postfix expression has ended, it has
\* returned, and the number returned is the value of the reference evaluation
\* (left operand below the right operand on the stack).
C1_ReferenceValue ==
    (epc \in {"returned", "raised"} /\ WellFormed(tokens, constants)) =>
        /\ epc = "returned"
        /\ IsNumber(result)
        /\ result.n = RefValue(tokens, constants)

\* the call on 5 3 - has returned 2
C1_Witness ==
    /\ epc = "returned"
    /\ tokens = <<<<"5">>, <<"3">>, MINUS>>
    /\ result = IntV(2)

\* the next token names a constant that passes the name pattern and is bound to a number
NextIsScalarConstant ==
    /\ epc = "loop"
    /\ pos < Len(tokens)
    /\ HasKey(constants, tokens[pos + 1])
    /\ NameMatch(tokens[pos + 1])
    /\ IsNumber(Get(constants, tokens[pos + 1]))

\* C2, as stated: every token that names a scalar constant (the names max and
\* abs included) pushes the value the constant is bound to.
C2_Original ==
    [][NextIsScalarConstant =>
          /\ epc' = "loop"
          /\ stack' = Append(stack, Get(constants, tokens[pos + 1]))]_vars

\* C2, amended: every token that names a scalar constant other than max and
\* abs pushes the value the constant is bound to.
C2_Substitution ==
    [][(NextIsScalarConstant /\ tokens[pos + 1] \notin {MAX, ABS}) =>
          /\ epc' = "loop"
          /\ stack' = Append(stack, Get(constants, tokens[pos + 1]))]_vars

\* with x bound to 10 the call on x 5 * has returned 50
C2_Witness ==
    /\ epc = "returned"
    /\ tokens = <<<<"x">>, <<"5">>, TIMES>>
    /\ HasKey(constants, <<"x">>)
    /\ Get(constants, <<"x">>) = IntV(10)
    /\ result = IntV(50)

\* some token is the name of a constant bound to an array
UsesArrayConstant(names) ==
    \E j \in 1..Len(tokens) :
        /\ tokens[j] \in names
        /\ HasKey(constants, tokens[j])
        /\ IsList(Get(constants, tokens[j]))

AllTokens == {tokens[j] : j \in 1..Len(tokens)}

\* C3, as stated: a call whose tokens include the name of a constant bound to
\* an array never returns a value.
C3_Original == UsesArrayConstant(AllTokens) => epc # "returned"

\* C3, amended: a call whose tokens include the name, other than an operator
\* token, of a constant bound to an array never returns a value.
C3_ArrayConstantFails ==
    UsesArrayConstant(AllTokens \ (BinaryOps \cup {ABS})) => epc # "returned"

\* the array constant was reached after at least one other token and raised
C3_Witness ==
    /\ epc = "raised"
    /\ eerr = "ArrayInExpression"
    /\ pos >= 1
    /\ UsesArrayConstant({<<"x">>})

\* the next token is an operator for which the stack holds too few values
NextIsStarved ==
    /\ epc = "loop"
    /\ pos < Len(tokens)
    /\ \/ tokens[pos + 1] \in BinaryOps /\ Len(stack) < 2
       \/ tokens[pos + 1] = ABS /\ Len(stack) < 1

\* C7: an operator that finds too few values on the stack raises at that
\* token, the stack as it was, and no token is processed after an error.
C7_NotEnoughOperands ==
    [][/\ NextIsStarved =>
            /\ epc' = "raised"
            /\ eerr' \in {"NotEnoughOperands", "NotEnoughMax", "NotEnoughAbs"}
            /\ stack' = stack
            /\ pos' = pos
       /\ epc = "raised" => UNCHANGED <<stack, pos, epc, eerr, result>>]_vars

\* max found one value on the stack and raised, with tokens left over
C7_Witness ==
    /\ epc = "raised"
    /\ eerr = "NotEnoughMax"
    /\ Len(stack) = 1
    /\ pos + 1 < Len(tokens)

\* C8: once every token is consumed without an error, the call returns the
\* single value of the stack if the stack holds exactly one value, and raises
\* otherwise.
C8_ExactlyOneValue ==
    [][(epc = "loop" /\ pos = Len(tokens)) =>
          \/ Len(stack) = 1 /\ epc' = "returned" /\ result' = stack[1]
          \/ Len(stack) # 1 /\ epc' = "raised" /\ eerr' = "InvalidStack"]_vars

\* two values were left on the stack and the call raised
C8_Witness ==
    /\ epc = "raised"
    /\ eerr = "InvalidStack"
    /\ pos = Len(tokens)
    /\ Len(stack) = 2

\* every constant passes the validation of main's first loop
ValidatedConstants(cs) ==
    \A j \in 1..Len(cs) : ConstantError(cs[j].name, cs[j].val) = "none"

\* C10: with validated constants every value on the stack is a number and no
\* operand-type error is raised.
C10_StackOfNumbers ==
    ValidatedConstants(constants) =>
        /\ \A j \in 1..Len(stack) : IsNumber(stack[j])
        /\ eerr \notin {"ArithOnlyNumbers", "MaxOnlyNumbers", "AbsOnlyNumbers"}

\* validated constants, one of them an array, and a constant's value on the stack
C10_Witness ==
    /\ ValidatedConstants(constants)
    /\ Len(constants) = 2
    /\ IsList(constants[2].val)
    /\ Len(stack) = 2
    /\ stack[1] = constants[1].val

(***************************************************************************)
(* Claims about a run of main.                                             *)
(***************************************************************************)
RECURSIVE HasBoolOrNull(_)
HasBoolOrNull(v) ==
    \/ v.k \in {"bool", "null"}
    \/ v.k = "list" /\ \E j \in 1..Len(v.a) : HasBoolOrNull(v.a[j])

\* C4: no top-level value that is or contains a boolean or null is turned
\* into a declaration.
C4_NoTextForBoolOrNull ==
    \A j \in 1..ei : ~HasBoolOrNull(data.rest[j].val)

\* C5: the output file is opened only after every constant is validated and
\* every other item is name-checked and transformed, and a failed run has
\* written nothing.
C5_AllOrNothing ==
    /\ opened =>
          /\ err = "none"
          /\ ci = Len(data.constants_section)
          /\ ei = Len(data.rest)
          /\ pvCalled = 1..Len(data.rest)
    /\ pc = "failed" => (~opened /\ file = <<>>)

\* a run failed after declarations had been made, and nothing was written
C5_Witness ==
    /\ pc = "failed"
    /\ pvCalled # {}
    /\ Len(output_lines) >= 2
    /\ file = <<>>

HasBadName ==
    \/ \E j \in 1..Len(data.constants_section) : ~NameMatch(data.constants_section[j].name)
    \/ \E j \in 1..Len(data.rest) : ~NameMatch(data.rest[j].name)

\* C6, as stated: a run whose input has a name violating the pattern never
\* succeeds, and when a name is rejected process_value has not been invoked.
C6_Original ==
    HasBadName =>
        /\ pc # "done"
        /\ err \in {"InvalidConstName", "InvalidTopName"} => pvCalled = {}

\* C6, amended: a run whose input has a name violating the pattern never
\* succeeds and writes nothing; process_value is never invoked on an item
\* whose name violates the pattern nor on an item after it, and not at all
\* when a constant name is rejected.
C6_RejectedBeforeItsValue ==
    HasBadName =>
        /\ pc # "done"
        /\ ~opened
        /\ err = "InvalidConstName" => pvCalled = {}
        /\ \A j \in pvCalled : \A m \in 1..j : NameMatch(data.rest[m].name)

\* the second top-level name was rejected after the first value was transformed
C6_Witness ==
    /\ pc = "failed"
    /\ err = "InvalidTopName"
    /\ pvCalled = {1}
    /\ ei = 1

\* the name in a chunk "const <name> = <value>;\n" of the output file
DeclName(chunk) ==
    LET stop == CHOOSE j \in 7..Len(chunk) :
                    chunk[j] = " " /\ \A m \in 7..(j - 1) : chunk[m] # " "
    IN SubSeq(chunk, 7, stop - 1)

Names(items) == [j \in 1..Len(items) |-> items[j].name]

\* C9: the output of a successful run is one declaration per constant, in
\* input order, then one declaration per other top-level item, in input
\* order.
C9_DeclarationOrder ==
    pc = "done" =>
        [j \in 1..Len(file) |-> DeclName(file[j])]
            = Names(data.constants_section) \o Names(data.rest)

\* a successful run with two constants and two other items
C9_Witness ==
    /\ pc = "done"
    /\ Len(data.constants_section) = 2
    /\ Len(data.rest) = 2
    /\ Len(file) = 4

====
